---- MODULE Spec2Model ----
(***************************************************************************)
(* Model of the Kansas workers'-compensation PDF processor                 *)
(* (kswc_processor): the chunker, the section identifier and cleaner, the  *)
(* metadata extractor, the per-document pipeline and the batch             *)
(* orchestrator.  Text is a sequence of one-character strings; the regular *)
(* expressions of config.py are matched by a backtracking matcher with     *)
(* Python's leftmost / greedy preference order.                            *)
(***************************************************************************)
EXTENDS Integers, Sequences, FiniteSets, TLC

VARIABLES
    text,         \* chunker: the text handed to create_logical_chunks
    max_tokens,   \* chunker: its max_tokens argument
    chunks,       \* chunker: the returned list of chunk strings
    pages,        \* document: the page texts of the PDF file
    sections,     \* document: the list returned by identify_sections
    result,       \* document: the dictionary returned by process_pdf_file
    mtext,        \* metadata: the text handed to extract_case_info
    case_info,    \* metadata: the dictionary it returns
    broken,       \* batch: for each PDF file, the step at which it makes
                  \*        process_pdf_file's callee raise ("none": no step)
    output_file,  \* batch: the JSONL output file
    log_file,     \* batch: the side error log <output_file>.log
    run,          \* batch: the state of the current / last process_directory
    phase,        \* batch: "idle", "running", or how the last run ended
    runs,         \* batch: process_directory calls so far
    crashes,      \* batch: runs that crashed while writing
    pc            \* which operation has run in the current behaviour

chunkVars == <<text, max_tokens, chunks>>
docVars   == <<pages, sections, result>>
metaVars  == <<mtext, case_info>>
batchVars == <<broken, output_file, log_file, run, phase, runs, crashes>>
vars == <<chunkVars, docVars, metaVars, batchVars, pc>>

----------------------------------------------------------------------------
(* Bounds of the model *)

MaxTextLen == 7       \* characters of a chunker text
MaxTok == 3           \* largest small max_tokens
MaxDocTokens == 3     \* tokens of a document
MaxMetaTokens == 3    \* tokens of a metadata text
MaxRuns == 3          \* process_directory calls in a behaviour
MaxCrashes == 1       \* of which crash while writing the output

(* config.py *)
MAX_CHUNK_SIZE == 800
DEFAULT_WORKERS == 4

----------------------------------------------------------------------------
(* Characters *)

Upper == {"A","B","C","D","E","F","G","H","I","J","K","L","M",
          "N","O","P","Q","R","S","T","U","V","W","X","Y","Z"}
Lower == {"a","b","c","d","e","f","g","h","i","j","k","l","m",
          "n","o","p","q","r","s","t","u","v","w","x","y","z"}
Digit == {"0","1","2","3","4","5","6","7","8","9"}
\* \s of the re module and the whitespace of str.split / str.strip
Space == {" ", "\n", "\t"}
\* \w of the re module
WordCh == Upper \cup Lower \cup Digit \cup {"_"}

\* body(v) with v bound to the value of e: an assignment v = e, evaluated once
Let(e, body(_)) == CHOOSE out \in {body(v) : v \in {e}} : TRUE

Max(S) == CHOOSE x \in S : \A y \in S : y <= x
Min(S) == CHOOSE x \in S : \A y \in S : x <= y

----------------------------------------------------------------------------
(* Regular expressions (re module).  A regular expression is a sequence of *)
(* alternatives in priority order; an alternative is a sequence of items   *)
(* and, for each capture group, the first and last item of the group.      *)

One(c)   == [t |-> "c", cls |-> c, lo |-> 1, many |-> FALSE, str |-> << >>]
Plus(c)  == [t |-> "c", cls |-> c, lo |-> 1, many |-> TRUE, str |-> << >>]
Star(c)  == [t |-> "c", cls |-> c, lo |-> 0, many |-> TRUE, str |-> << >>]
Lit(s)   == [t |-> "lit", cls |-> {}, lo |-> 0, many |-> FALSE, str |-> s]
WordB    == [t |-> "b", cls |-> {}, lo |-> 0, many |-> FALSE, str |-> << >>]
Bos      == [t |-> "bos", cls |-> {}, lo |-> 0, many |-> FALSE, str |-> << >>]
Eos      == [t |-> "eos", cls |-> {}, lo |-> 0, many |-> FALSE, str |-> << >>]

Alt(items, groups) == [items |-> items, groups |-> groups]

\* length of the longest run of characters of cls starting at pos
RECURSIVE Run(_, _, _)
Run(s, pos, cls) ==
    IF pos > Len(s) \/ s[pos] \notin cls THEN 0 ELSE 1 + Run(s, pos + 1, cls)

\* \b : exactly one of the characters before and after pos is a word character
AtWordB(s, pos) ==
    LET before == pos > 1 /\ s[pos - 1] \in WordCh
        after  == pos <= Len(s) /\ s[pos] \in WordCh
    IN before # after

\* $ : at the end of the string, or before a newline that ends it
AtEos(s, pos) ==
    \/ pos = Len(s) + 1
    \/ pos = Len(s) /\ s[pos] = "\n"

LitAt(s, pos, str) ==
    /\ pos + Len(str) - 1 <= Len(s)
    /\ \A i \in 1..Len(str) : s[pos + i - 1] = str[i]

\* The preferred match of items k.. at pos: the positions before item k, k+1,
\* ... and after the last item, or << >> when there is none.  A repeated item
\* first takes the longest run and gives characters back one at a time until
\* the rest matches (greedy, backtracking).
RECURSIVE MatchFrom(_, _, _, _)
RECURSIVE Backtrack(_, _, _, _, _)

Backtrack(items, s, k, pos, n) ==
    LET r == MatchFrom(items, s, k + 1, pos + n)
    IN IF r # << >> THEN <<pos>> \o r
       ELSE IF n <= items[k].lo THEN << >>
       ELSE Backtrack(items, s, k, pos, n - 1)

MatchFrom(items, s, k, pos) ==
    IF k > Len(items) THEN <<pos>>
    ELSE LET it == items[k] IN
      CASE it.t = "b"   -> IF AtWordB(s, pos) THEN Backtrack(items, s, k, pos, 0)
                           ELSE << >>
        [] it.t = "bos" -> IF pos = 1 THEN Backtrack(items, s, k, pos, 0) ELSE << >>
        [] it.t = "eos" -> IF AtEos(s, pos) THEN Backtrack(items, s, k, pos, 0)
                           ELSE << >>
        [] it.t = "lit" -> IF LitAt(s, pos, it.str)
                           THEN LET r == MatchFrom(items, s, k + 1, pos + Len(it.str))
                                IN IF r # << >> THEN <<pos>> \o r ELSE << >>
                           ELSE << >>
        [] it.t = "c"   -> Let(IF it.many THEN Run(s, pos, it.cls)
                               ELSE IF pos <= Len(s) /\ s[pos] \in it.cls THEN 1
                               ELSE 0,
                               LAMBDA most : IF most < it.lo THEN << >>
                                             ELSE Backtrack(items, s, k, pos, most))

NoMatch == [start |-> 0, end |-> 0, g |-> << >>]

\* The first alternative from a on that matches at pos
RECURSIVE MatchAlt(_, _, _, _)
MatchAlt(re, s, pos, a) ==
    IF a > Len(re) THEN NoMatch
    ELSE LET b == MatchFrom(re[a].items, s, 1, pos)
         IN IF b = << >> THEN MatchAlt(re, s, pos, a + 1)
            ELSE [start |-> pos,
                  end   |-> b[Len(b)],
                  g     |-> [n \in 1..Len(re[a].groups) |->
                               <<b[re[a].groups[n][1]], b[re[a].groups[n][2] + 1]>>]]

\* re.match at pos; [start, end) is the match and [g[n][1], g[n][2]) group n
MatchAt(re, s, pos) == MatchAlt(re, s, pos, 1)

\* re.search from position from: the leftmost match
Search(re, s, from) ==
    Let({pos \in from..(Len(s) + 1) : MatchAt(re, s, pos) # NoMatch},
        LAMBDA hits : IF hits = {} THEN NoMatch ELSE MatchAt(re, s, Min(hits)))

re_search(re, s) == Search(re, s, 1)

\* re.finditer: the successive non-overlapping matches, left to right
RECURSIVE FindIter(_, _, _)
FindIter(re, s, from) ==
    LET m == Search(re, s, from)
    IN IF m = NoMatch THEN << >>
       ELSE <<m>> \o FindIter(re, s, IF m.end > m.start THEN m.end ELSE m.end + 1)

re_finditer(re, s) == FindIter(re, s, 1)

Slice(s, a, b) == SubSeq(s, a, b - 1)      \* s[a:b], 1-based, b exclusive

Group(s, m, n) == Slice(s, m.g[n][1], m.g[n][2])      \* match.group(n)

\* re.split: the pieces of s between the matches
RECURSIVE SplitFrom(_, _, _)
SplitFrom(re, s, from) ==
    LET m == Search(re, s, from)
    IN IF m = NoMatch THEN <<Slice(s, from, Len(s) + 1)>>
       ELSE <<Slice(s, from, m.start)>> \o SplitFrom(re, s, m.end)

re_split(re, s) == SplitFrom(re, s, 1)

\* The replacement of a match: tmpl is a sequence of literal texts and of
\* group references
RLit(str) == [grp |-> 0, lit |-> str]
RGroup(n) == [grp |-> n, lit |-> << >>]

RECURSIVE Expand(_, _, _)
Expand(tmpl, s, m) ==
    IF tmpl = << >> THEN << >>
    ELSE (IF tmpl[1].grp > 0 THEN Group(s, m, tmpl[1].grp) ELSE tmpl[1].lit)
            \o Expand(Tail(tmpl), s, m)

\* re.sub: every non-overlapping match replaced, left to right
RECURSIVE SubFrom(_, _, _, _)
SubFrom(re, tmpl, s, from) ==
    LET m == Search(re, s, from)
    IN IF m = NoMatch THEN Slice(s, from, Len(s) + 1)
       ELSE Slice(s, from, m.start) \o Expand(tmpl, s, m)
               \o SubFrom(re, tmpl, s, m.end)

re_sub(re, tmpl, s) == SubFrom(re, tmpl, s, 1)

----------------------------------------------------------------------------
(* str methods *)

\* len(s.split()): the number of maximal runs of non-whitespace
WordCount(s) ==
    Cardinality({i \in 1..Len(s) :
                   s[i] \notin Space /\ (i = 1 \/ s[i - 1] \in Space)})

\* s.strip()
Strip(s) ==
    LET idx == {i \in 1..Len(s) : s[i] \notin Space}
    IN IF idx = {} THEN << >> ELSE SubSeq(s, Min(idx), Max(idx))

\* s.split(c) for a one-character separator
RECURSIVE SplitChar(_, _)
SplitChar(s, c) ==
    LET idx == {i \in 1..Len(s) : s[i] = c}
    IN IF idx = {} THEN <<s>>
       ELSE <<SubSeq(s, 1, Min(idx) - 1)>>
               \o SplitChar(SubSeq(s, Min(idx) + 1, Len(s)), c)

\* s.isupper(): a cased character, and no lower-case one
IsUpper(s) ==
    /\ \E i \in 1..Len(s) : s[i] \in Upper
    /\ \A i \in 1..Len(s) : s[i] \notin Lower

\* c in s
Contains(s, c) == \E i \in 1..Len(s) : s[i] = c

\* the concatenation of a list of lists
RECURSIVE Flatten(_)
Flatten(ss) == IF ss = << >> THEN << >> ELSE ss[1] \o Flatten(Tail(ss))

RECURSIVE Join(_, _)
Join(parts, sep) ==
    IF Len(parts) = 0 THEN << >>
    ELSE IF Len(parts) = 1 THEN parts[1]
    ELSE parts[1] \o sep \o Join(Tail(parts), sep)

----------------------------------------------------------------------------
(* config.py: the patterns *)

Heading(name) == Alt(<<WordB, Lit(name), WordB>>, << >>)

SECTION_PATTERNS == <<
    << Heading(<<"A","P","P","E","A","R","A","N","C","E","S">>) >>,
    << Heading(<<"R","E","C","O","R","D"," ","A","N","D"," ","S","T","I","P","U","L","A","T","I","O","N","S">>) >>,
    << Heading(<<"I","S","S","U","E","S">>) >>,
    << Heading(<<"F","I","N","D","I","N","G","S"," ","O","F"," ","F","A","C","T">>) >>,
    \* ( AND ANALYSIS)? : with the optional part first, then without
    << Heading(<<"P","R","I","N","C","I","P","L","E","S"," ","O","F"," ","L","A","W"," ","A","N","D"," ","A","N","A","L","Y","S","I","S">>),
       Heading(<<"P","R","I","N","C","I","P","L","E","S"," ","O","F"," ","L","A","W">>) >>,
    << Heading(<<"A","N","A","L","Y","S","I","S">>) >>,
    \* (S)?
    << Heading(<<"C","O","N","C","L","U","S","I","O","N","S">>), Heading(<<"C","O","N","C","L","U","S","I","O","N">>) >>,
    << Heading(<<"A","W","A","R","D">>) >>,
    << Heading(<<"O","R","D","E","R">>) >>,
    << Heading(<<"D","E","C","I","S","I","O","N">>) >> >>

NameCh == Upper \cup Space \cup {"."}
\* ([A-Z][A-Z\s\.]+)
NameItems == <<One(Upper), Plus(NameCh)>>
DocketCh == Digit \cup {",", ".", "-"}

CLAIMANT_PATTERNS == <<
    << Alt(NameItems \o <<Plus(Space), One({")"}), Star(Space), One({"\n"}),
                          Star(Space), Lit(<<"C","l","a","i","m","a","n","t">>)>>, << <<1, 2>> >>) >>,
    << Alt(NameItems \o <<Plus(Space), Plus(Digit), Plus(Space), Lit(<<"D","O","C","K","E","T">>),
                          Plus(Space), Lit(<<"N","O",".">>)>>, << <<1, 2>> >>) >>,
    << Alt(NameItems \o <<Plus(Space), Lit(<<"v","s",".">>), Plus(Space)>>,
           << <<1, 2>> >>) >>,
    << Alt(NameItems \o <<Plus(Space), Lit(<<"V","S",".">>), Plus(Space)>>,
           << <<1, 2>> >>) >>,
    << Alt(<<Lit(<<"B","E","F","O","R","E">>), Plus(Space), Lit(<<"T","H","E">>), Plus(Space),
             Plus(Upper \cup Space), Plus(Space), Lit(<<"A","P","P","E","A","L","S">>), Plus(Space),
             Lit(<<"B","O","A","R","D">>), Plus(Space)>> \o NameItems, << <<11, 12>> >>) >> >>

CaseNumber(prefix) ==
    Alt(<<Lit(prefix), Plus(Digit), Lit(<<"-">>), Plus(Digit), Lit(<<"-">>),
          Plus(Digit)>>, << <<1, 6>> >>)
ThreeDigits == <<One(Digit), One(Digit), One(Digit)>>
Standalone == ThreeDigits \o <<Lit(<<",">>)>> \o ThreeDigits

DOCKET_PATTERNS == <<
    << Alt(<<Lit(<<"D","o","c","k","e","t">>), Plus(Space), Lit(<<"N","o",".">>), Plus(Space),
             Plus(DocketCh)>>, << <<5, 5>> >>) >>,
    << Alt(<<Lit(<<"D","O","C","K","E","T">>), Plus(Space), Lit(<<"N","O",".">>), Plus(Space),
             Plus(DocketCh)>>, << <<5, 5>> >>) >>,
    << CaseNumber(<<"A","P","-">>) >>,
    << CaseNumber(<<"C","S","-">>) >>,
    \* (?:^|\s)([\d]{3},[\d]{3})(?:$|\s)
    << Alt(<<Bos>> \o Standalone \o <<Eos>>, << <<2, 8>> >>),
       Alt(<<Bos>> \o Standalone \o <<One(Space)>>, << <<2, 8>> >>),
       Alt(<<One(Space)>> \o Standalone \o <<Eos>>, << <<2, 8>> >>),
       Alt(<<One(Space)>> \o Standalone \o <<One(Space)>>, << <<2, 8>> >>) >> >>

RESPONDENT_PATTERNS == <<
    << Alt(<<Lit(<<"V","S",".">>), Star(Space), One({")"}), Star(Space), One({"\n"}),
             Star(Space), One({")"}), Star(Space), One({"\n"}), Star(Space)>>
           \o NameItems, << <<11, 12>> >>) >>,
    << Alt(<<Lit(<<"V","S",".">>), Star(Space), One({")"}), Star(Space), One({"\n"}),
             Star(Space)>> \o NameItems, << <<7, 8>> >>) >>,
    << Alt(<<Lit(<<"v","s",".">>), Plus(Space)>> \o NameItems, << <<3, 4>> >>) >>,
    << Alt(<<Lit(<<"R","E","S","P","O","N","D","E","N","T",":">>), Plus(Space)>> \o NameItems, << <<3, 4>> >>) >> >>

----------------------------------------------------------------------------
(* metadata_extraction.py *)

Unknown == <<"U","n","k","n","o","w","n">>

\* The loop over a name field's patterns without the validation of the name
RECURSIVE ExtractNameUnvalidated(_, _, _)
ExtractNameUnvalidated(patterns, txt, k) ==
    IF k > Len(patterns) THEN Unknown
    ELSE LET match == re_search(patterns[k], txt)
         IN IF match # NoMatch
            THEN Strip(Group(txt, match, 1))
            ELSE ExtractNameUnvalidated(patterns, txt, k + 1)

\* The loop over a name field's patterns from pattern k on: the first match
\* of each pattern is validated, and the first accepted one is the result
RECURSIVE ExtractName(_, _, _)
ExtractName(patterns, txt, k) ==
    IF k > Len(patterns) THEN Unknown
    ELSE LET match == re_search(patterns[k], txt)
         IN IF match # NoMatch
            THEN LET name == Strip(Group(txt, match, 1))
                 IN IF Contains(name, " ") /\ IsUpper(name)
                    THEN name
                    ELSE ExtractName(patterns, txt, k + 1)
            ELSE ExtractName(patterns, txt, k + 1)

RECURSIVE ExtractDocket(_, _, _)
ExtractDocket(patterns, txt, k) ==
    IF k > Len(patterns) THEN Unknown
    ELSE LET match == re_search(patterns[k], txt)
         IN IF match # NoMatch
            THEN Strip(Group(txt, match, 1))
            ELSE ExtractDocket(patterns, txt, k + 1)

extract_case_info(txt) ==
    [claimant_name   |-> ExtractName(CLAIMANT_PATTERNS, txt, 1),
     docket_number   |-> ExtractDocket(DOCKET_PATTERNS, txt, 1),
     respondent_name |-> ExtractName(RESPONDENT_PATTERNS, txt, 1)]

NewLine == <<"\n">>

extract_enhanced_case_info(pgs) ==
    Let(IF Len(pgs) >= 3 THEN Join(SubSeq(pgs, 1, 3), NewLine)
        ELSE Join(pgs, NewLine),
        LAMBDA full_text : extract_case_info(full_text))

----------------------------------------------------------------------------
(* section_processing.py *)

\* The (position, matched text) pairs of the patterns from pattern k on, in
\* discovery order; positions count from 0 as in the code
RECURSIVE SectionPositions(_, _)
SectionPositions(combined_text, k) ==
    IF k > Len(SECTION_PATTERNS) THEN << >>
    ELSE LET ms == re_finditer(SECTION_PATTERNS[k], combined_text)
         IN [j \in 1..Len(ms) |->
                [pos  |-> ms[j].start - 1,
                 name |-> Slice(combined_text, ms[j].start, ms[j].end)]]
            \o SectionPositions(combined_text, k + 1)

\* section_positions left in the order the patterns found them
InPatternOrder(ps) == ps

\* list.sort(key = position): stable
RECURSIVE SortByPos(_)
SortByPos(ps) ==
    IF ps = << >> THEN << >>
    ELSE LET n      == Len(ps)
             sorted == SortByPos(SubSeq(ps, 1, n - 1))
             x      == ps[n]
             before == {j \in 1..(n - 1) : sorted[j].pos <= x.pos}
             at     == IF before = {} THEN 0 ELSE Max(before)
         IN SubSeq(sorted, 1, at) \o <<x>> \o SubSeq(sorted, at + 1, n - 1)

\* The page-number loop: the first page whose range holds start_pos, else 0
RECURSIVE PageNum(_, _, _, _)
PageNum(pgs, start_pos, i, current_pos) ==
    IF i > Len(pgs) THEN 0
    ELSE IF start_pos >= current_pos /\ start_pos < current_pos + Len(pgs[i])
    THEN i - 1
    ELSE PageNum(pgs, start_pos, i + 1, current_pos + Len(pgs[i]) + 1)

\* The text of the section at index i of the sorted positions
SectionText(combined_text, positions, i) ==
    LET start_pos == positions[i].pos
        end_pos   == IF i < Len(positions) THEN positions[i + 1].pos
                     ELSE Len(combined_text)
    IN Strip(Slice(combined_text, start_pos + 1, end_pos + 1))

identify_sections(pgs) ==
    Let(Join(pgs, NewLine), LAMBDA combined_text :
    Let(SortByPos(SectionPositions(combined_text, 1)), LAMBDA positions :
        [i \in 1..Len(positions) |->
          [section_name |-> positions[i].name,
           section_text |-> SectionText(combined_text, positions, i),
           page_num     |-> PageNum(pgs, positions[i].pos, 1, 0),
           start_pos    |-> positions[i].pos]]))

\* r'\s+'
WhitespaceRun == << Alt(<<Plus(Space)>>, << >>) >>
\* r'(\w)- (\w)'
Hyphenation ==
    << Alt(<<One(WordCh), Lit(<<"-", " ">>), One(WordCh)>>,
           << <<1, 1>>, <<3, 3>> >>) >>

\* clean_section_text without the whitespace substitution
clean_section_text_uncollapsed(section_text) ==
    Let(SplitChar(section_text, "\n"), LAMBDA lines :
    Let(IF IsUpper(lines[1]) THEN Join(Tail(lines), NewLine) ELSE section_text,
        LAMBDA body :
    Let(re_sub(Hyphenation, <<RGroup(1), RGroup(2)>>, body), LAMBDA joined :
        Strip(joined))))

clean_section_text(section_text) ==
    Let(SplitChar(section_text, "\n"), LAMBDA lines :
    Let(IF IsUpper(lines[1]) THEN Join(Tail(lines), NewLine) ELSE section_text,
        LAMBDA body :
    Let(re_sub(WhitespaceRun, <<RLit(<<" ">>)>>, body), LAMBDA collapsed :
    Let(re_sub(Hyphenation, <<RGroup(1), RGroup(2)>>, collapsed), LAMBDA joined :
        Strip(joined)))))

----------------------------------------------------------------------------
(* chunking.py *)

\* r'\n\s*\n'
ParagraphPattern ==
    << Alt(<<One({"\n"}), Star(Space), One({"\n"})>>, << >>) >>

ParagraphSep == <<"\n", "\n">>

\* ChunkLoop with the size test made after the paragraph is added
RECURSIVE ChunkLoopLateTest(_, _, _, _)
ChunkLoopLateTest(paragraphs, i, st, maxTokens) ==
    IF i > Len(paragraphs) THEN st
    ELSE LET para      == paragraphs[i]
             para_size == WordCount(para)
         IN IF st.current_size > maxTokens /\ st.current_chunk # << >>
            THEN ChunkLoopLateTest(paragraphs, i + 1,
                    [chunks        |-> Append(st.chunks, st.current_chunk),
                     current_chunk |-> <<para>>,
                     current_size  |-> para_size], maxTokens)
            ELSE ChunkLoopLateTest(paragraphs, i + 1,
                    [chunks        |-> st.chunks,
                     current_chunk |-> Append(st.current_chunk, para),
                     current_size  |-> st.current_size + para_size], maxTokens)

\* ChunkLoop closing the running chunk as soon as the limit is reached
RECURSIVE ChunkLoopEager(_, _, _, _)
ChunkLoopEager(paragraphs, i, st, maxTokens) ==
    IF i > Len(paragraphs) THEN st
    ELSE LET para      == paragraphs[i]
             para_size == WordCount(para)
         IN IF st.current_size + para_size >= maxTokens /\ st.current_chunk # << >>
            THEN ChunkLoopEager(paragraphs, i + 1,
                    [chunks        |-> Append(st.chunks, st.current_chunk),
                     current_chunk |-> <<para>>,
                     current_size  |-> para_size], maxTokens)
            ELSE ChunkLoopEager(paragraphs, i + 1,
                    [chunks        |-> st.chunks,
                     current_chunk |-> Append(st.current_chunk, para),
                     current_size  |-> st.current_size + para_size], maxTokens)

\* One iteration of the loop of create_logical_chunks over the paragraphs
\* from index i, with the loop's state st = [chunks, current_chunk, current_size]
RECURSIVE ChunkLoop(_, _, _, _)
ChunkLoop(paragraphs, i, st, maxTokens) ==
    IF i > Len(paragraphs) THEN st
    ELSE LET para      == paragraphs[i]
             para_size == WordCount(para)
         IN IF st.current_size + para_size > maxTokens /\ st.current_chunk # << >>
            THEN ChunkLoop(paragraphs, i + 1,
                    [chunks        |-> Append(st.chunks, st.current_chunk),
                     current_chunk |-> <<para>>,
                     current_size  |-> para_size], maxTokens)
            ELSE ChunkLoop(paragraphs, i + 1,
                    [chunks        |-> st.chunks,
                     current_chunk |-> Append(st.current_chunk, para),
                     current_size  |-> st.current_size + para_size], maxTokens)

\* ChunkGroups without the final flush of the running chunk
ChunkGroupsNoFinal(txt, maxTokens) ==
    Let(re_split(ParagraphPattern, txt), LAMBDA paragraphs :
        ChunkLoop(paragraphs, 1,
            [chunks |-> << >>, current_chunk |-> << >>, current_size |-> 0],
            maxTokens).chunks)

\* The chunks as lists of paragraphs, before they are joined
ChunkGroups(txt, maxTokens) ==
    Let(re_split(ParagraphPattern, txt), LAMBDA paragraphs :
    Let(ChunkLoop(paragraphs, 1,
            [chunks |-> << >>, current_chunk |-> << >>, current_size |-> 0],
            maxTokens), LAMBDA st :
        IF st.current_chunk # << >>
        THEN Append(st.chunks, st.current_chunk)
        ELSE st.chunks))

create_logical_chunks(txt, maxTokens) ==
    Let(ChunkGroups(txt, maxTokens), LAMBDA groups :
        [k \in 1..Len(groups) |-> Join(groups[k], ParagraphSep)])

create_chunks_with_metadata(section_name, section_text, metadata, maxTokens) ==
    Let(create_logical_chunks(section_text, maxTokens), LAMBDA cs :
       [k \in 1..Len(cs) |->
          [text |-> <<"C","a","s","e",":"," ">> \o metadata.docket_number \o <<" ","|"," ">>
                      \o <<"C","l","a","i","m","a","n","t",":"," ">> \o metadata.claimant_name \o NewLine
                      \o <<"S","e","c","t","i","o","n",":"," ">> \o section_name \o ParagraphSep \o cs[k],
           metadata |->
              [docket_number |-> metadata.docket_number,
               claimant_name |-> metadata.claimant_name,
               section       |-> section_name,
               chunk_index   |-> k - 1,
               chunk_count   |-> Len(cs),
               filename      |-> metadata.filename]
              @@ (IF metadata.respondent_name # Unknown
                  THEN [respondent_name |-> metadata.respondent_name]
                  ELSE << >>)]])

----------------------------------------------------------------------------
(* processors.py: one document *)

\* os.path.basename
basename(path) ==
    LET idx == {i \in 1..Len(path) : path[i] = "/"}
    IN IF idx = {} THEN path ELSE SubSeq(path, Max(idx) + 1, Len(path))

\* The steps of process_pdf_file at which a callee can raise
Steps == {"extract", "metadata", "sections", "clean", "chunk"}

\* the skip test made on the cleaned text
TooShortCleaned(section) ==
    Len(clean_section_text(section.section_text)) <= Len(section.section_name) + 5

\* the skip test of the section loop
TooShort(section) ==
    Len(Strip(section.section_text)) <= Len(section.section_name) + 5

\* the body of the section loop from section i on
RECURSIVE FileChunks(_, _, _)
FileChunks(secs, metadata, i) ==
    IF i > Len(secs) THEN << >>
    ELSE (IF TooShort(secs[i]) THEN << >>
          ELSE Let(clean_section_text(secs[i].section_text), LAMBDA clean_text :
                   create_chunks_with_metadata(secs[i].section_name, clean_text,
                                               metadata, MAX_CHUNK_SIZE)))
         \o FileChunks(secs, metadata, i + 1)

\* Whether an exception at step fault is raised at all: cleaning and chunking
\* run only for a section that passes the skip test
Raises(pgs, fault) ==
    \/ fault \in {"extract", "metadata", "sections"}
    \/ /\ fault \in {"clean", "chunk"}
       /\ \E secs \in {identify_sections(pgs)} :
             \E i \in 1..Len(secs) : ~TooShort(secs[i])

\* the body of the try block when no callee raises
TryBody(pdf_path, pgs) ==
    Let(basename(pdf_path), LAMBDA filename :
    Let(extract_enhanced_case_info(pgs) @@ [filename |-> filename],
        LAMBDA metadata :
    Let(identify_sections(pgs), LAMBDA secs :
        [status   |-> "success",
         filename |-> filename,
         chunks   |-> FileChunks(secs, metadata, 1),
         metadata |-> metadata])))

\* process_pdf_file without the except clause: the exception leaves the call
process_pdf_file_uncaught(pdf_path, pgs, fault) ==
    IF fault # "none" /\ Raises(pgs, fault)
    THEN [status   |-> "raised",
          filename |-> basename(pdf_path),
          error    |-> fault]
    ELSE TryBody(pdf_path, pgs)

\* process_pdf_file on a file whose extracted pages are pgs, a callee raising
\* at step fault ("none": no callee raises)
process_pdf_file(pdf_path, pgs, fault) ==
    IF fault # "none" /\ Raises(pgs, fault)
    THEN [status   |-> "error",
          filename |-> basename(pdf_path),
          error    |-> fault]
    ELSE TryBody(pdf_path, pgs)

----------------------------------------------------------------------------
(* Chunker specification: create_logical_chunks on every short text over   *)
(* a word character, a space and a newline, and on the 300/300/300 text.   *)

ChunkAlphabet == {"w", " ", "\n"}

ShortTexts == UNION {[1..n -> ChunkAlphabet] : n \in 0..MaxTextLen}

\* n words separated by single spaces
Words(n) == [i \in 1..(2 * n - 1) |-> IF i % 2 = 1 THEN "w" ELSE " "]

Para300 == Words(300)
Scenario4Text == Para300 \o ParagraphSep \o Para300 \o ParagraphSep \o Para300

ChunkIdle == text = << >> /\ max_tokens = 0 /\ chunks = << >>
DocIdle   == pages = << >> /\ sections = << >> /\ result = << >>
MetaIdle  == mtext = << >> /\ case_info = << >>
BatchIdle ==
    /\ broken = << >> /\ output_file = << >> /\ log_file = << >> /\ run = << >>
    /\ phase = "idle" /\ runs = 0 /\ crashes = 0

ChunkInit ==
    /\ \/ text \in ShortTexts /\ max_tokens \in -1..MaxTok
       \/ text = Scenario4Text /\ max_tokens = MAX_CHUNK_SIZE
    /\ chunks = << >>
    /\ DocIdle /\ MetaIdle /\ BatchIdle
    /\ pc = "start"

CreateLogicalChunks ==
    /\ pc = "start"
    /\ chunks' = create_logical_chunks(text, max_tokens)
    /\ pc' = "chunked"
    /\ UNCHANGED <<text, max_tokens, docVars, metaVars, batchVars>>

ChunkNext == CreateLogicalChunks

SpecChunk == ChunkInit /\ [][ChunkNext]_vars

----------------------------------------------------------------------------
(* Document specification: identify_sections and process_pdf_file on every *)
(* document of at most MaxDocTokens tokens; the token PageBreak ends a     *)
(* page.                                                                    *)

PageBreak == <<"\f">>

DocTokens == { <<"A","W","A","R","D">>, <<"A","N","A","L","Y","S","I","S">>, <<"P","R","I","N","C","I","P","L","E","S"," ","O","F"," ","L","A","W"," ","A","N","D"," ">>,
               <<"\n">>, <<"P","a","i","d">>, <<"\n","c","o","-"," ","o","p",".","\n">>, PageBreak }

\* the pages of a token sequence: the texts between the page breaks
RECURSIVE PagesOf(_, _)
PagesOf(toks, page) ==
    IF toks = << >> THEN <<page>>
    ELSE IF toks[1] = PageBreak THEN <<page>> \o PagesOf(Tail(toks), << >>)
    ELSE PagesOf(Tail(toks), page \o toks[1])

Documents ==
    {PagesOf(toks, << >>) :
        toks \in UNION {[1..n -> DocTokens] : n \in 0..MaxDocTokens}}

DocPath == <<"p","d","f","s","/","c","a","s","e","0","0","1",".","p","d","f">>

DocInit ==
    /\ pages \in Documents
    /\ sections = << >>
    /\ result = << >>
    /\ ChunkIdle /\ MetaIdle /\ BatchIdle
    /\ pc = "start"

IdentifySections ==
    /\ pc = "start"
    /\ sections' = identify_sections(pages)
    /\ pc' = "sections"
    /\ UNCHANGED <<pages, result, chunkVars, metaVars, batchVars>>

ProcessPdfFile ==
    /\ pc = "start"
    /\ \E fault \in Steps \cup {"none"} :
          result' = process_pdf_file(DocPath, pages, fault)
    /\ pc' = "processed"
    /\ UNCHANGED <<pages, sections, chunkVars, metaVars, batchVars>>

DocNext == IdentifySections \/ ProcessPdfFile

SpecDoc == DocInit /\ [][DocNext]_vars

----------------------------------------------------------------------------
(* Metadata specification: extract_case_info on every text of at most      *)
(* MaxMetaTokens tokens.                                                    *)

MetaTokens == { <<"J","O","H","N"," ","D","O","E"," ">>, <<"A","C","M","E"," ","v","s","."," ">>, <<"V","S","."," ">>, <<")","\n">>,
                <<"C","l","a","i","m","a","n","t">>, <<"1","2"," ","D","O","C","K","E","T"," ","N","O","."," ","3","4"," ">>,
                <<"B","E","F","O","R","E"," ","T","H","E"," ","K","S"," ","A","P","P","E","A","L","S"," ","B","O","A","R","D"," ">>, <<"R","E","S","P","O","N","D","E","N","T",":"," ">> }

MetaTexts ==
    {Flatten(toks) :
        toks \in UNION {[1..n -> MetaTokens] : n \in 0..MaxMetaTokens}}

MetaInit ==
    /\ mtext \in MetaTexts
    /\ case_info = << >>
    /\ ChunkIdle /\ DocIdle /\ BatchIdle
    /\ pc = "start"

ExtractCaseInfo ==
    /\ pc = "start"
    /\ case_info' = extract_case_info(mtext)
    /\ pc' = "extracted"
    /\ UNCHANGED <<mtext, chunkVars, docVars, batchVars>>

MetaNext == ExtractCaseInfo

SpecMeta == MetaInit /\ [][MetaNext]_vars

----------------------------------------------------------------------------
(* utils.py *)

PDF_EXTENSION == <<".","p","d","f">>

UpperSeq == <<"A","B","C","D","E","F","G","H","I","J","K","L","M","N","O","P","Q","R","S","T","U","V","W","X","Y","Z">>
LowerSeq == <<"a","b","c","d","e","f","g","h","i","j","k","l","m","n","o","p","q","r","s","t","u","v","w","x","y","z">>

\* s.lower()
ToLower(s) ==
    [i \in 1..Len(s) |->
        IF s[i] \in Upper
        THEN LowerSeq[CHOOSE k \in 1..Len(UpperSeq) : UpperSeq[k] = s[i]]
        ELSE s[i]]

\* s.endswith(suffix)
EndsWith(s, suffix) ==
    /\ Len(s) >= Len(suffix)
    /\ SubSeq(s, Len(s) - Len(suffix) + 1, Len(s)) = suffix

\* os.path.join
path_join(dir, filename) == dir \o <<"/">> \o filename

NoPattern == << >>      \* pattern = None

\* find_pdf_files over the listing os.listdir returns, from entry i on
RECURSIVE FindPdfFiles(_, _, _, _)
FindPdfFiles(dir, listing, pattern, i) ==
    IF i > Len(listing) THEN << >>
    ELSE (IF /\ EndsWith(ToLower(listing[i]), PDF_EXTENSION)
             /\ (pattern = NoPattern \/ re_search(pattern, listing[i]) # NoMatch)
          THEN <<path_join(dir, listing[i])>>
          ELSE << >>)
         \o FindPdfFiles(dir, listing, pattern, i + 1)

find_pdf_files(dir, listing, pattern) == FindPdfFiles(dir, listing, pattern, 1)

\* The output file: whether it exists, its lines, and whether the last line
\* still lacks its newline.  A line is a sequence of fragments; a fragment is
\* the JSON text of a chunk, whole or cut short.  Every line that a complete
\* write produces is one whole fragment.
NoFile == [exists |-> FALSE, lines |-> << >>, open |-> FALSE]
EmptyFile == [exists |-> TRUE, lines |-> << >>, open |-> FALSE]

\* json.loads(line) succeeds: exactly one JSON document on the line
Parses(line) == Len(line) = 1 /\ line[1].whole

\* The loop of get_processed_files from line i on: a line that does not parse
\* raises, and the except clause leaves the set as it is at that point
RECURSIVE ReadLines(_, _, _)
ReadLines(lines, i, processed_files) ==
    IF i > Len(lines) THEN processed_files
    ELSE IF ~Parses(lines[i]) THEN processed_files
    ELSE ReadLines(lines, i + 1,
                   processed_files \cup {lines[i][1].chunk.metadata.filename})

get_processed_files(file) ==
    IF file.exists THEN ReadLines(file.lines, 1, {}) ELSE {}

\* f.write of one fragment, followed by the newline when nl
WriteFragment(file, frag, nl) ==
    [exists |-> TRUE,
     lines  |-> IF file.open
                THEN [file.lines EXCEPT ![Len(file.lines)] = Append(@, frag)]
                ELSE Append(file.lines, <<frag>>),
     open   |-> ~nl]

RECURSIVE WriteLines(_, _, _)
WriteLines(file, cs, i) ==
    IF i > Len(cs) THEN file
    ELSE WriteLines(WriteFragment(file, [chunk |-> cs[i], whole |-> TRUE], TRUE),
                    cs, i + 1)

\* open(output_file, mode)
OpenForWrite(file, append) ==
    IF append /\ file.exists THEN file ELSE EmptyFile

write_chunks_to_jsonl(cs, file, append) ==
    WriteLines(OpenForWrite(file, append), cs, 1)

\* write_chunks_to_jsonl cut short by the death of the process: the first k
\* chunks are on disk, and of chunk k + 1 nothing ("boundary"), a proper
\* prefix of its JSON text ("partial") or all of it but the newline ("whole")
write_interrupted(cs, file, append, k, cut) ==
    LET done == WriteLines(OpenForWrite(file, append), SubSeq(cs, 1, k), 1)
    IN IF cut = "boundary" THEN done
       ELSE WriteFragment(done, [chunk |-> cs[k + 1], whole |-> cut = "whole"],
                          FALSE)

----------------------------------------------------------------------------
(* processors.py: process_directory *)

\* The directory of the batch specification, in the order os.listdir gives
Directory == <<"p","d","f","s">>
Listing == << <<"c","a","s","e","0","0","1",".","p","d","f">>, <<"n","o","t","e","s",".","t","x","t">>, <<"c","a","s","e","0","0","2",".","p","d","f">>, <<"m","e","m","o",".","P","D","F">> >>
PdfNames == { <<"c","a","s","e","0","0","1",".","p","d","f">>, <<"c","a","s","e","0","0","2",".","p","d","f">>, <<"m","e","m","o",".","P","D","F">> }

\* what extract_text_from_pdf returns for each file
FilePages ==
    [f \in PdfNames |->
        CASE f = <<"c","a","s","e","0","0","1",".","p","d","f">> -> << <<"A","W","A","R","D","\n","c","o","-"," ","o","p",".">> >>
          [] f = <<"c","a","s","e","0","0","2",".","p","d","f">> -> << <<"D","O","C","K","E","T"," ","N","O","."," ","1","2","\n","A","W","A","R","D","\n","P","a","i","d"," ","P","a","i","d">>,
                                       <<"A","N","A","L","Y","S","I","S","\n","c","o","-"," ","o","p",".">> >>
          [] OTHER               -> << <<"P","a","i","d">> >>]

CasePattern == << Alt(<<Lit(<<"c","a","s","e">>)>>, << >>) >>

\* a filter pattern that no file name of the directory matches
DraftPattern == << Alt(<<Lit(<<"d","r","a","f","t">>)>>, << >>) >>

\* process_pdf_file on each file of the directory, for each step at which
\* the file may make a callee raise
WorkerResult ==
    [f \in PdfNames |->
        [ft \in Steps \cup {"none"} |->
            process_pdf_file(path_join(Directory, f), FilePages[f], ft)]]

\* results = list(executor.map(process_pdf_file, pdf_files)) as collected if
\* the results came in completion order
ResultsAsCompleted(r) ==
    [k \in 1..Len(r.pdf_files) |-> r.results[r.completed[k]]]

\* results = list(executor.map(process_pdf_file, pdf_files)): the results in
\* the order of pdf_files
MapResults(r) == [i \in 1..Len(r.pdf_files) |-> r.results[i]]

\* The result loop: all_chunks, and the blocks written to the log
RECURSIVE AllChunks(_, _)
AllChunks(results, i) ==
    IF i > Len(results) THEN << >>
    ELSE (IF results[i].status = "success" THEN results[i].chunks ELSE << >>)
         \o AllChunks(results, i + 1)

RECURSIVE ErrorBlocks(_, _)
ErrorBlocks(results, i) ==
    IF i > Len(results) THEN << >>
    ELSE (IF results[i].status = "success" THEN << >>
          ELSE << [filename |-> results[i].filename,
                   details  |-> results[i].error] >>)
         \o ErrorBlocks(results, i + 1)

SuccessfulFiles(results) ==
    Cardinality({i \in 1..Len(results) : results[i].status = "success"})

\* A call raised in a worker is raised again by executor.map
Propagates(results) == \E i \in 1..Len(results) : results[i].status = "raised"

NoRun == [resume |-> FALSE, pattern |-> NoPattern, workers |-> 0,
          pdf_files |-> << >>, task |-> << >>, results |-> << >>,
          completed |-> << >>, ret |-> << >>]

\* The files that make a callee raise: none, or some of the case files, all
\* at the same step
BrokenFiles ==
    {[f \in PdfNames |-> IF f \in bad THEN step ELSE "none"] :
        bad \in SUBSET {<<"c","a","s","e","0","0","1",".","p","d","f">>, <<"c","a","s","e","0","0","2",".","p","d","f">>}, step \in Steps}

BatchInit ==
    /\ broken \in BrokenFiles
    /\ output_file = NoFile
    /\ log_file = << >>
    /\ run = NoRun
    /\ phase = "idle"
    /\ runs = 0
    /\ crashes = 0
    /\ ChunkIdle /\ DocIdle /\ MetaIdle
    /\ pc = "batch"

\* process_directory up to the submission of the files to the pool; with no
\* file to process it returns (0, 0, 0) at once
StartRun ==
    /\ phase # "running"
    /\ runs < MaxRuns
    /\ \E resume \in BOOLEAN, pattern \in {NoPattern, CasePattern, DraftPattern},
          workers \in {1, DEFAULT_WORKERS} :
          LET processed_files == IF resume THEN get_processed_files(output_file)
                                 ELSE {}
              found     == find_pdf_files(Directory, Listing, pattern)
              pdf_files == SelectSeq(found,
                              LAMBDA f : basename(f) \notin processed_files)
          IN /\ run' = [resume    |-> resume,
                        pattern   |-> pattern,
                        workers   |-> workers,
                        pdf_files |-> pdf_files,
                        task      |-> [i \in 1..Len(pdf_files) |-> "queued"],
                        results   |-> [i \in 1..Len(pdf_files) |-> << >>],
                        completed |-> << >>,
                        ret       |-> IF pdf_files = << >> THEN <<0, 0>>
                                      ELSE << >>]
             /\ phase' = IF pdf_files = << >> THEN "nothing" ELSE "running"
    /\ runs' = runs + 1
    /\ UNCHANGED <<broken, output_file, log_file, crashes,
                   chunkVars, docVars, metaVars, pc>>

\* A free worker process takes the next file of the call queue
WorkerStart ==
    /\ phase = "running"
    /\ \E i \in 1..Len(run.pdf_files) :
          /\ run.task[i] = "queued"
          /\ \A j \in 1..(i - 1) : run.task[j] # "queued"
          /\ Cardinality({j \in 1..Len(run.pdf_files) : run.task[j] = "running"})
                < run.workers
          /\ run' = [run EXCEPT !.task[i] = "running"]
    /\ UNCHANGED <<broken, output_file, log_file, phase, runs, crashes,
                   chunkVars, docVars, metaVars, pc>>

\* A worker process returns from process_pdf_file
WorkerFinish ==
    /\ phase = "running"
    /\ \E i \in 1..Len(run.pdf_files) :
          /\ run.task[i] = "running"
          /\ LET f == basename(run.pdf_files[i])
             IN run' = [run EXCEPT !.task[i] = "done",
                                   !.results[i] = WorkerResult[f][broken[f]],
                                   !.completed = Append(@, i)]
    /\ UNCHANGED <<broken, output_file, log_file, phase, runs, crashes,
                   chunkVars, docVars, metaVars, pc>>

AllDone == \A i \in 1..Len(run.pdf_files) : run.task[i] = "done"

\* The rest of process_directory once the pool has finished: the result
\* loop, the log, the write of the output, the return value
FinishRun ==
    /\ phase = "running"
    /\ AllDone
    /\ LET results    == MapResults(run)
           all_chunks == AllChunks(results, 1)
       IN IF Propagates(results)
          THEN /\ phase' = "aborted"
               /\ UNCHANGED <<output_file, log_file, run>>
          ELSE /\ log_file' = log_file \o ErrorBlocks(results, 1)
               /\ output_file' =
                     write_chunks_to_jsonl(all_chunks, output_file, run.resume)
               /\ run' = [run EXCEPT
                            !.ret = <<Len(run.pdf_files), Len(all_chunks)>>]
               /\ phase' = "done"
    /\ UNCHANGED <<broken, runs, crashes, chunkVars, docVars, metaVars, pc>>

\* The process dies while write_chunks_to_jsonl is writing
CrashInWrite ==
    /\ phase = "running"
    /\ AllDone
    /\ crashes < MaxCrashes
    /\ LET results    == MapResults(run)
           all_chunks == AllChunks(results, 1)
       IN /\ ~Propagates(results)
          /\ \E k \in 0..(Len(all_chunks) - 1),
                cut \in {"boundary", "partial", "whole"} :
                output_file' =
                    write_interrupted(all_chunks, output_file, run.resume, k, cut)
          /\ log_file' = log_file \o ErrorBlocks(results, 1)
    /\ phase' = "crashed"
    /\ crashes' = crashes + 1
    /\ UNCHANGED <<broken, run, runs, chunkVars, docVars, metaVars, pc>>

BatchNext == StartRun \/ WorkerStart \/ WorkerFinish \/ FinishRun \/ CrashInWrite

SpecBatch == BatchInit /\ [][BatchNext]_vars

----------------------------------------------------------------------------
(* Claims about the chunker *)

Paragraphs(s) == re_split(ParagraphPattern, s)

\* C1: no returned chunk has more than max_tokens words, unless the chunk is
\* exactly one paragraph that alone has more than max_tokens words.
C1_ChunkBound ==
    pc = "chunked" =>
        \A k \in 1..Len(chunks) :
            WordCount(chunks[k]) > max_tokens => Len(Paragraphs(chunks[k])) = 1

\* an oversized paragraph alone in its chunk, beside a chunk within the limit
C1_Witness ==
    /\ pc = "chunked"
    /\ \E k \in 1..Len(chunks) : WordCount(chunks[k]) > max_tokens
    /\ \E k \in 1..Len(chunks) :
          WordCount(chunks[k]) > 0 /\ WordCount(chunks[k]) <= max_tokens

\* C2: the chunks joined with the paragraph separator split back into the
\* paragraphs of the text, and the paragraphs of the chunks, chunk after
\* chunk, are the paragraphs of the text: none dropped, duplicated, reordered.
C2_RoundTrip ==
    pc = "chunked" =>
        /\ Paragraphs(Join(chunks, ParagraphSep)) = Paragraphs(text)
        /\ Flatten([k \in 1..Len(chunks) |-> Paragraphs(chunks[k])])
             = Paragraphs(text)

\* three paragraphs spread over two chunks
C2_Witness ==
    /\ pc = "chunked"
    /\ Len(Paragraphs(text)) = 3
    /\ Len(chunks) = 2

\* C3: the empty text gives an empty chunk list.
C3_EmptyTextNoChunks ==
    (pc = "chunked" /\ text = << >>) => chunks = << >>

\* C4: a chunk is closed only when the next paragraph would push it over
\* max_tokens: the words of a chunk plus the words of the first paragraph of
\* the next chunk exceed max_tokens; 300/300/300 words at 800 give
\* [para1 + para2, para3].
C4_Greedy ==
    pc = "chunked" =>
        /\ \A k \in 1..(Len(chunks) - 1) :
              WordCount(chunks[k]) + WordCount(Paragraphs(chunks[k + 1])[1])
                > max_tokens
        /\ (text = Scenario4Text /\ max_tokens = MAX_CHUNK_SIZE) =>
              chunks = <<Para300 \o ParagraphSep \o Para300, Para300>>

C4_Witness ==
    /\ pc = "chunked"
    /\ text = Scenario4Text
    /\ Len(chunks) = 2
    /\ WordCount(chunks[1]) = 600


----------------------------------------------------------------------------
(* Claims about identify_sections and process_pdf_file, under SpecDoc *)

CombinedText == Join(pages, NewLine)

\* the offsets at which some heading pattern matches in the joined pages
HeadingStarts(combined) ==
    UNION {{ms[j].start - 1 : j \in 1..Len(ms)} :
              ms \in {re_finditer(SECTION_PATTERNS[k], combined) :
                         k \in 1..Len(SECTION_PATTERNS)}}

\* the offset at which the span of section i ends
SpanEnd(combined, i) ==
    IF i < Len(sections) THEN sections[i + 1].start_pos ELSE Len(combined)

\* the substring of the joined pages covered by section i
Span(combined, i) ==
    Slice(combined, sections[i].start_pos + 1, SpanEnd(combined, i) + 1)

\* Both readings of C5 agree on this part: the sections start exactly at
\* the heading matches, in ascending order of start offset, so that nothing
\* before the first heading is in a section and no match gives no section
SectionsAtHeadings(combined) ==
    /\ \A i \in 1..(Len(sections) - 1) :
          sections[i].start_pos <= sections[i + 1].start_pos
    /\ {sections[i].start_pos : i \in 1..Len(sections)} = HeadingStarts(combined)
    /\ (sections = << >>) <=> (HeadingStarts(combined) = {})

\* C5 (as amended): identify_sections returns the sections in ascending
\* start offset order, one per heading match, and the text of each is the
\* substring of the newline-joined pages from its start offset to the next
\* section's start offset (document end for the last) with the whitespace
\* at both ends removed; the result is empty when no heading matches.
C5_SectionSpans ==
    pc = "sections" =>
        \E combined \in {CombinedText} :
            /\ SectionsAtHeadings(combined)
            /\ \A i \in 1..Len(sections) :
                  sections[i].section_text = Strip(Span(combined, i))

\* C5 as stated: the text of each section is the whole substring up to the
\* next start offset, the last one ending exactly at document end
C5_SpansUntrimmed ==
    pc = "sections" =>
        \E combined \in {CombinedText} :
            /\ SectionsAtHeadings(combined)
            /\ \A i \in 1..Len(sections) :
                  sections[i].section_text = Span(combined, i)

\* two sections, the span of the first ending in whitespace
C5_Witness ==
    /\ pc = "sections"
    /\ Len(sections) = 2
    /\ sections[1].start_pos < sections[2].start_pos
    /\ sections[1].section_text # Span(CombinedText, 1)
    /\ sections[2].section_text = Span(CombinedText, 2)

\* the chunks of the result that come from sections named name
ChunksOf(name) ==
    {k \in 1..Len(result.chunks) : result.chunks[k].metadata.section = name}

\* the length of the text of a section, heading line included, trimmed
RawLength(section) == Len(Strip(section.section_text))

\* the length of the text the cleaner makes of a section
CleanedLength(section) == Len(clean_section_text(section.section_text))

\* C8 (as amended): process_pdf_file skips a section whose trimmed text,
\* heading line included, is at most 5 characters longer than its section
\* name: headings all of whose sections are that short give no chunk, and
\* every other section gives at least one chunk, however short its cleaned
\* body is.
C8_ShortSectionSkipped ==
    (pc = "processed" /\ result.status = "success") =>
        \E secs \in {identify_sections(pages)} :
            \A i \in 1..Len(secs) :
                LET name == secs[i].section_name
                    same == {j \in 1..Len(secs) : secs[j].section_name = name}
                IN /\ (\A j \in same : RawLength(secs[j]) <= Len(name) + 5)
                        => ChunksOf(name) = {}
                   /\ RawLength(secs[i]) > Len(name) + 5
                        => ChunksOf(name) # {}

\* C8 as stated: a section whose cleaned body is at most 5 characters longer
\* than its section name contributes no chunk
C8_ShortCleanedBodySkipped ==
    (pc = "processed" /\ result.status = "success") =>
        \E secs \in {identify_sections(pages)} :
            \A i \in 1..Len(secs) :
                LET name == secs[i].section_name
                    same == {j \in 1..Len(secs) : secs[j].section_name = name}
                IN (\A j \in same : CleanedLength(secs[j]) <= Len(name) + 5)
                      => ChunksOf(name) = {}

\* a document with a section that is skipped and a section that is kept
C8_Witness ==
    /\ pc = "processed"
    /\ result.status = "success"
    /\ \E secs \in {identify_sections(pages)} :
          \E i, j \in 1..Len(secs) :
              /\ RawLength(secs[i]) <= Len(secs[i].section_name) + 5
              /\ ChunksOf(secs[i].section_name) = {}
              /\ RawLength(secs[j]) > Len(secs[j].section_name) + 5
              /\ ChunksOf(secs[j].section_name) # {}

\* the sections process_pdf_file does not skip, in document order
KeptSections(secs) ==
    SelectSeq(secs, LAMBDA section :
                       RawLength(section) > Len(section.section_name) + 5)

\* every whitespace run of the text is one space
SingleSpaced(s) ==
    /\ \A i \in 1..Len(s) : s[i] \in Space => s[i] = " "
    /\ \A i \in 1..(Len(s) - 1) : ~(s[i] = " " /\ s[i + 1] = " ")

\* C13: the text clean_section_text returns for a section process_pdf_file
\* does not skip has no newline, every whitespace run of it being a single
\* space, so that create_logical_chunks makes one chunk of it whatever the
\* token bound is; the chunks of the document are one per section that is
\* not skipped, in document order, each with chunk_index 0 and
\* chunk_count 1.
C13_OneChunkPerSection ==
    (pc = "processed" /\ result.status = "success") =>
        \E kept \in {KeptSections(identify_sections(pages))} :
            /\ Len(result.chunks) = Len(kept)
            /\ \A k \in 1..Len(kept) :
                  /\ result.chunks[k].metadata.section = kept[k].section_name
                  /\ result.chunks[k].metadata.chunk_index = 0
                  /\ result.chunks[k].metadata.chunk_count = 1
                  /\ \E clean \in {clean_section_text(kept[k].section_text)} :
                        /\ SingleSpaced(clean)
                        /\ \A m \in {0, 1, MAX_CHUNK_SIZE} :
                              Len(create_logical_chunks(clean, m)) = 1

\* a document with a section that is not skipped, whose text as found in the
\* document has several paragraphs and whose cleaned text has more than one
\* word
C13_Witness ==
    /\ pc = "processed"
    /\ result.status = "success"
    /\ \E kept \in {KeptSections(identify_sections(pages))} :
          \E k \in 1..Len(kept) :
              /\ Len(Paragraphs(kept[k].section_text)) > 1
              /\ WordCount(clean_section_text(kept[k].section_text)) > 1
              /\ result.chunks[k].metadata.chunk_count = 1


----------------------------------------------------------------------------
(* Claims about extract_case_info, under SpecMeta *)

\* the first match of each pattern of the list in the text
FirstMatches(patterns) ==
    [k \in 1..Len(patterns) |-> re_search(patterns[k], mtext)]

\* the candidate of a match: its trimmed capture
Candidate(match) == Strip(Group(mtext, match, 1))

\* a name with an interior space, in upper case throughout
WellFormed(name) ==
    /\ \E i \in 2..(Len(name) - 1) : name[i] = " "
    /\ \A i \in 1..Len(name) : name[i] \notin Lower
    /\ \E i \in 1..Len(name) : name[i] \in Upper

\* the patterns whose match has a well-formed candidate
Acceptable(matches) ==
    {k \in 1..Len(matches) :
        matches[k] # NoMatch /\ WellFormed(Candidate(matches[k]))}

\* name is the candidate of the first pattern, in list order, whose candidate
\* is well formed, and the sentinel when there is none
FirstAccepted(patterns, name) ==
    \E matches \in {FirstMatches(patterns)} :
        \E ok \in {Acceptable(matches)} :
            /\ name = Unknown \/ WellFormed(name)
            /\ name = IF ok = {} THEN Unknown ELSE Candidate(matches[Min(ok)])

\* C10: the claimant and respondent names returned by extract_case_info are
\* the sentinel "Unknown" or a trimmed capture with an interior space and no
\* lower-case letter; a candidate that lacks either is passed over whichever
\* pattern matched it, and the name is that of the first pattern in list
\* order whose candidate is accepted.
C10_NameValidated ==
    pc = "extracted" =>
        /\ FirstAccepted(CLAIMANT_PATTERNS, case_info.claimant_name)
        /\ FirstAccepted(RESPONDENT_PATTERNS, case_info.respondent_name)

\* a claimant found by a later pattern after an earlier pattern's candidate
\* was rejected
C10_Witness ==
    /\ pc = "extracted"
    /\ case_info.claimant_name # Unknown
    /\ \E matches \in {FirstMatches(CLAIMANT_PATTERNS)} :
          \E k \in 1..Len(matches) :
              /\ matches[k] # NoMatch
              /\ ~WellFormed(Candidate(matches[k]))
              /\ k < Min(Acceptable(matches))


----------------------------------------------------------------------------
(* Claims about process_directory, under SpecBatch *)

Attempted == 1..Len(run.pdf_files)

Succeeded == {i \in Attempted : run.results[i].status = "success"}

Failed == {i \in Attempted : run.results[i].status = "error"}

\* the fragments of the output file, in file order
Fragments(file) == Flatten(file.lines)

\* the complete record of a chunk
Record(chunk) == [chunk |-> chunk, whole |-> TRUE]

\* C6: an exception raised at any step of process_pdf_file for one document
\* makes that document's result an error result and never aborts the batch:
\* once process_directory has returned, each attempted document has exactly
\* one result, a success or an error, the documents with an error result are
\* those for which a step raised, successes plus failures is the number of
\* attempted documents, and every chunk of every successful document is in
\* the output file.
C6_FailureIsolated ==
    /\ phase # "aborted"
    /\ phase = "done" =>
          /\ Len(run.results) = Len(run.pdf_files)
          /\ \A i \in Attempted :
                LET f == basename(run.pdf_files[i])
                IN /\ run.results[i].filename = f
                   /\ run.results[i].status \in {"success", "error"}
                   /\ run.results[i].status = "error"
                         <=> (broken[f] # "none" /\ Raises(FilePages[f], broken[f]))
          /\ Cardinality(Succeeded) + Cardinality(Failed) = Len(run.pdf_files)
          /\ run.ret[1] = Len(run.pdf_files)
          /\ \A i \in Succeeded :
                \A k \in 1..Len(run.results[i].chunks) :
                    \E j \in 1..Len(Fragments(output_file)) :
                        Fragments(output_file)[j] = Record(run.results[i].chunks[k])

\* a finished run with a failed document and a successful one whose chunks
\* are in the output
C6_Witness ==
    /\ phase = "done"
    /\ Failed # {}
    /\ \E i \in Succeeded : run.results[i].chunks # << >>
    /\ log_file # << >>

\* the filenames of the records of the file: of its lines that parse
RecordedFiles(file) ==
    {file.lines[i][1].chunk.metadata.filename :
        i \in {j \in 1..Len(file.lines) : Parses(file.lines[j])}}

\* C7: in a run with resume, no file whose basename is the filename of a
\* record of the existing output file is among the files processed (the
\* output file is not written before the workers have finished, so that
\* during the run it is the file the run found).
C7_RecordedFilesExcluded ==
    (phase = "running" /\ run.resume) =>
        \A i \in Attempted :
            basename(run.pdf_files[i]) \notin RecordedFiles(output_file)

\* the records of the results, taken in the given order of the documents
RecordsInOrder(order) ==
    Flatten([k \in 1..Len(order) |->
                IF order[k] \in Succeeded
                THEN [j \in 1..Len(run.results[order[k]].chunks) |->
                         Record(run.results[order[k]].chunks[j])]
                ELSE << >>])

\* what the finished run wrote: the last run.ret[2] fragments of the file
Written ==
    SubSeq(Fragments(output_file),
           Len(Fragments(output_file)) - run.ret[2] + 1,
           Len(Fragments(output_file)))

\* C9 (as amended): the chunks process_directory writes are ordered by the
\* order of submission, the order of pdf_files, whatever the order in which
\* the workers finish: runs over the same file list write the documents'
\* chunk groups in the same order.
C9_SubmissionOrder ==
    phase = "done" =>
        Written = RecordsInOrder([i \in Attempted |-> i])

\* C9 as stated: the chunks written are ordered by the order in which the
\* workers finished
C9_CompletionOrder ==
    phase = "done" => Written = RecordsInOrder(run.completed)

\* a finished run whose second document finished before its first, both
\* with chunks
C9_Witness ==
    /\ phase = "done"
    /\ Len(run.completed) >= 2
    /\ run.completed[1] = 2
    /\ {1, 2} \subseteq Succeeded
    /\ run.results[1].chunks # << >>
    /\ run.results[2].chunks # << >>


\* the complete records among the fragments of the file
WrittenRecords(file) ==
    {Fragments(file)[j] : j \in {n \in 1..Len(Fragments(file)) :
                                      Fragments(file)[n].whole}}

\* document i of the current run has chunks, and not all of them are in the
\* output file: it is partially represented there, or absent from it
Interrupted(i) ==
    /\ run.results[i].status = "success"
    /\ run.results[i].chunks # << >>
    /\ \E k \in 1..Len(run.results[i].chunks) :
          Record(run.results[i].chunks[k]) \notin WrittenRecords(output_file)

\* C11: when a run has crashed in the middle of the write, the next run
\* with resume processes again every document of the crashed run that the
\* directory scan and the filter pattern of the new run still give and that
\* the crash left partially represented or absent in the output file.
C11_InterruptedReprocessed ==
    [][(phase = "crashed" /\ runs' = runs + 1 /\ run'.resume) =>
          \A i \in Attempted :
              (/\ Interrupted(i)
               /\ \E j \in 1..Len(find_pdf_files(Directory, Listing, run'.pattern)) :
                     find_pdf_files(Directory, Listing, run'.pattern)[j]
                        = run.pdf_files[i])
              => \E j \in 1..Len(run'.pdf_files) :
                     run'.pdf_files[j] = run.pdf_files[i]]_vars


\* the records a reader of the file finds: its parseable lines, in order
ReadableRecords(file) ==
    [i \in 1..Len(SelectSeq(file.lines, Parses)) |->
        SelectSeq(file.lines, Parses)[i][1]]

\* the records of the chunks of the run's successful documents
NewRecords == RecordsInOrder([i \in Attempted |-> i])

\* C12: a run with resume leaves every record of the output file where it
\* was, unchanged and in the same order, and puts the records of its new
\* chunks after them; a run without resume leaves in the output file exactly
\* the records of the chunks of its successful documents.
C12_AppendOrOverwrite ==
    [][/\ (phase = "running" /\ phase' = "done") =>
            IF run.resume
            THEN ReadableRecords(output_file')
                    = ReadableRecords(output_file) \o NewRecords
            ELSE /\ ReadableRecords(output_file') = NewRecords
                 /\ Len(output_file'.lines) = Len(NewRecords)
       /\ (runs' = runs + 1 /\ phase' = "nothing") =>
            IF run'.resume
            THEN ReadableRecords(output_file') = ReadableRecords(output_file)
            ELSE output_file'.lines = << >>]_vars


\* what identifies a chunk of a document among the records
ChunkKey(record) ==
    <<record.chunk.metadata.filename, record.chunk.metadata.section,
      record.chunk.metadata.chunk_index>>

\* C14: whatever runs of process_directory have written and appended to the
\* output file, crashed ones included, no two records of the file are the
\* same chunk of the same section of the same document.
C14_NoDuplicateRecords ==
    \E records \in {ReadableRecords(output_file)} :
        \A i, j \in 1..Len(records) :
            i < j => ChunkKey(records[i]) # ChunkKey(records[j])

====
